---- MODULE Spec2Model ----
(***************************************************************************)
(* router-fusion: fuseRoutes scans a project tree for .js/.ts files, loads *)
(* each one, and mounts the Express routers it finds on the application.   *)
(* The repository ships four revisions of fuseRoutes; the model runs any   *)
(* one of them, selected by the variable `variant`:                        *)
(*   "cjs"  src/unnamed/part_000   (CommonJS, handleExpressRouter)         *)
(*   "mjs"  src/index.mjs          (ES modules, import())                  *)
(*   "js1"  src/index.js:1-99      (CommonJS, first revision)              *)
(*   "js2"  src/index.js:102-236   (CommonJS, second revision)             *)
(* Strings are sequences of one-character strings so that split, includes  *)
(* and endsWith are computed as JavaScript computes them.  Paths are       *)
(* sequences of names relative to the scanned root.                        *)
(***************************************************************************)
EXTENDS Integers, Sequences, FiniteSets, TLC

VARIABLES variant, fsys, excludeFilter, helpRoute,
          pc, exFiles, allExcludedFolders, files, visited,
          idx, routerModule, plan, loads, mounts, appStack, log, thrown,
          mountFailures,
          caller, lateMounts, helpRequests, helpResponse, rescan

\* variant             the revision of fuseRoutes that runs
\* fsys                the file system fs.readdir and fs.stat read
\* excludeFilter       options.excludeFilter, helpRoute: options.helpRoute
\* pc                  where fuseRoutes is: "call", "scan", "loop", "mount",
\*                     "returned" (resolved) or "thrown" (rejected)
\* exFiles, allExcludedFolders, files: the locals of fuseRoutes
\* visited             the directories fs.readdir was called on, in order
\* idx                 the position of the for-of loop in files
\* routerModule        the value the current candidate loaded to
\* plan                the app.use calls still to make for the current candidate
\* loads, mounts       every require/import and every app.use made, in order
\* appStack            what is mounted on the application
\* log                 the console.error calls, thrown: the error fuseRoutes rejects with
\* mountFailures       how many app.use calls have thrown
\* caller              the code that called fuseRoutes without await: "before"
\*                     or "after" the statement that follows the call, or
\*                     "caught" in the catch block around the call
\* lateMounts          how many routers the host mounted after fuseRoutes returned
\* helpRequests        how many times the "/help" handler has run
\* helpResponse        what the handler passed to res.json the last time
\* rescan              the outcome of a second getAllJsTsFiles on the same tree
hostVars == <<caller, lateMounts, helpRequests, helpResponse, rescan>>

vars == <<variant, fsys, excludeFilter, helpRoute,
          pc, exFiles, allExcludedFolders, files, visited,
          idx, routerModule, plan, loads, mounts, appStack, log, thrown,
          mountFailures, hostVars>>

\* How many app.use calls of one run the environment may make throw.
MaxMountFailures == 2

\* How many routers the host mounts by hand after fuseRoutes has returned.
MaxLateMounts == 1

\* How many requests reach the "/help" handler.
MaxHelpRequests == 1

Variants == {"cjs", "mjs", "js1", "js2"}

-----------------------------------------------------------------------------
(* Strings *)

Space == " "
ExtJs == <<".", "j", "s">>
ExtTs == <<".", "t", "s">>

NodeModules == <<"n", "o", "d", "e", "_", "m", "o", "d", "u", "l", "e", "s">>
DotGit == <<".", "g", "i", "t">>
Build == <<"b", "u", "i", "l", "d">>
SecretsJs == <<"s", "e", "c", "r", "e", "t", "s", ".", "j", "s">>
Src == <<"s", "r", "c">>
AppTs == <<"a", "p", "p", ".", "t", "s">>
NotesMd == <<"n", "o", "t", "e", "s", ".", "m", "d">>
DirA == <<"a">>
DirB == <<"b">>
OneJs == <<"1", ".", "j", "s">>
TwoJs == <<"2", ".", "j", "s">>
RJs == <<"r", ".", "j", "s">>
MJs == <<"m", ".", "j", "s">>
HJs == <<"h", ".", "j", "s">>
OJs == <<"o", ".", "j", "s">>
XTs == <<"x", ".", "t", "s">>
Locked == <<"l", "o", "c", "k", "e", "d">>
Dangling == <<"d", "a", "n", "g", "l", "i", "n", "g">>
AJson == <<"a", ".", "j", "s", "o", "n">>

\* String.prototype.endsWith
EndsWith(s, suf) ==
    /\ Len(s) >= Len(suf)
    /\ SubSeq(s, Len(s) - Len(suf) + 1, Len(s)) = suf

\* String.prototype.includes
Includes(s, sub) ==
    \E i \in 1..(Len(s) - Len(sub) + 1) : SubSeq(s, i, i + Len(sub) - 1) = sub

\* Array.prototype.includes
ArrIncludes(arr, x) == \E i \in 1..Len(arr) : arr[i] = x

\* String.prototype.split(" "): every separator ends a token, empty tokens are
\* kept, and the empty string splits to one empty token.
RECURSIVE SplitFrom(_, _, _)
SplitFrom(str, i, cur) ==
    IF i > Len(str) THEN <<cur>>
    ELSE IF str[i] = Space THEN <<cur>> \o SplitFrom(str, i + 1, <<>>)
    ELSE SplitFrom(str, i + 1, Append(cur, str[i]))

Split(str) == SplitFrom(str, 1, <<>>)

-----------------------------------------------------------------------------
(* Exclusion configuration *)

DEFAULT_EXCLUDE_FOLDERS == <<NodeModules, DotGit>>

LooksLikeFile(elem) == Includes(elem, ExtJs) \/ Includes(elem, ExtTs)

filterFileAndFolder(str) ==
    LET arr == Split(str)
        fs == SelectSeq(arr, LooksLikeFile)
        NotFile(elem) == ~ArrIncludes(fs, elem)
    IN  [files |-> fs, folders |-> SelectSeq(arr, NotFile)]

\* a caller's folder list replacing the defaults instead of extending them
MergeExcludedFoldersReplacing(exFolders) ==
    IF \E i \in 1..Len(exFolders) : exFolders[i] # <<>> THEN exFolders
    ELSE DEFAULT_EXCLUDE_FOLDERS

MergeExcludedFolders(exFolders) == DEFAULT_EXCLUDE_FOLDERS \o exFolders

-----------------------------------------------------------------------------
(* JavaScript values, by the structure the code inspects: typeof, the own  *)
(* properties 'use', 'handle' and 'stack', what isExpressRouter (an        *)
(* external library) answers for the value, and the enumerable properties  *)
(* in for-in order.                                                        *)

JsValue(id, type, own, isRouter, props) ==
    [id |-> id, type |-> type, own |-> own, isRouter |-> isRouter, props |-> props]

Prop(key, val) == [key |-> key, val |-> val]

Undefined == JsValue("undefined", "undefined", {}, FALSE, <<>>)
Num42 == JsValue("42", "number", {}, FALSE, <<>>)
RouterA == JsValue("routerA", "function", {"stack"}, TRUE, <<>>)
RouterB == JsValue("routerB", "function", {"stack"}, TRUE, <<>>)
RouterC == JsValue("routerC", "function", {"stack"}, TRUE, <<>>)
\* an Express application that also carries a routing stack of its own
AppLike == JsValue("appLike", "function", {"use", "handle", "stack"}, TRUE, <<>>)
ContainerABC ==
    JsValue("{a,b,c}", "object", {}, FALSE,
            <<Prop("a", RouterA), Prop("b", Num42), Prop("c", RouterC)>>)
ContainerApp ==
    JsValue("{x,y}", "object", {}, FALSE, <<Prop("x", AppLike), Prop("y", RouterB)>>)
DefaultSlotB == JsValue("{default}", "object", {}, FALSE, <<Prop("default", RouterB)>>)
ContainerNested ==
    JsValue("{m:{default}}", "object", {}, FALSE, <<Prop("m", DefaultSlotB)>>)

\* value.key, or undefined (also for value?.key on undefined)
Get(value, key) ==
    IF \E i \in 1..Len(value.props) : value.props[i].key = key
    THEN value.props[CHOOSE i \in 1..Len(value.props) : value.props[i].key = key].val
    ELSE Undefined

isExpressRouter(value) == value.isRouter

Truthy(value) == value.type \in {"function", "object"} \/ value = Num42

-----------------------------------------------------------------------------
(* Source files, by module convention, and the two loaders *)

NoError == [kind |-> "none", path |-> <<>>]
ErrorOf(kind, path) == [kind |-> kind, path |-> path]

SourceModule(id, conv, throws, exports) ==
    [id |-> id, conv |-> conv, throws |-> throws, exports |-> exports]

\* module.exports = <value>
Cjs(id, value) == SourceModule(id, "cjs", FALSE, value)
\* export default <value>
EsmDefault(id, value) ==
    SourceModule(id, "esm", FALSE,
                 JsValue("ns:" \o id, "object", {}, FALSE, <<Prop("default", value)>>))
\* export const a = routerA, b = 42, c = routerC
EsmNamed ==
    SourceModule("esmNamed", "esm", FALSE,
                 JsValue("ns:{a,b,c}", "object", {}, FALSE, ContainerABC.props))
\* a module of either convention whose initialisation throws
CjsThrows == SourceModule("cjsThrows", "cjs", TRUE, Undefined)
EsmThrows == SourceModule("esmThrows", "esm", TRUE, Undefined)

CjsModules ==
    { Cjs("cjsRouter", RouterA), Cjs("cjsApp", AppLike), Cjs("cjsContainer", ContainerABC),
      Cjs("cjsContainerApp", ContainerApp), Cjs("cjsNested", ContainerNested),
      Cjs("cjsNumber", Num42), Cjs("cjsEmpty", Undefined), CjsThrows }
EsmModules ==
    { EsmDefault("esmRouter", RouterA), EsmDefault("esmApp", AppLike), EsmNamed, EsmThrows }
AnyModule == CjsModules \cup EsmModules

Loaded(value) == [threw |-> FALSE, value |-> value, error |-> NoError]
LoadThrew(kind, file) == [threw |-> TRUE, value |-> Undefined, error |-> ErrorOf(kind, file)]

\* require(file): an ES module is not loadable this way
Require(file, m) ==
    IF m.conv # "cjs" THEN LoadThrew("NotThisConvention", file)
    ELSE IF m.throws THEN LoadThrew("LoadError", file)
    ELSE Loaded(m.exports)

\* await import(file): a CommonJS module arrives as the default slot of a namespace
Import(file, m) ==
    IF m.throws THEN LoadThrew("LoadError", file)
    ELSE IF m.conv = "esm" THEN Loaded(m.exports)
    ELSE Loaded(JsValue("ns:" \o m.id, "object", {}, FALSE, <<Prop("default", m.exports)>>))

\* every revision with require as its only loading strategy
StrategyRequireOnly(v) == "require"

\* the one loading strategy of a revision: index.mjs imports, the others require
Strategy(v) == IF v = "mjs" THEN "import" ELSE "require"

Load(v, file, m) ==
    IF Strategy(v) = "import" THEN Import(file, m) ELSE Require(file, m)

-----------------------------------------------------------------------------
(* File systems: a function from paths (sequences of names below the root) *)
(* to nodes.  A directory lists its entries in the order readdir returns   *)
(* them; a file carries the modules it may hold.                           *)

Dir(entries) == [kind |-> "dir", readable |-> TRUE, entries |-> entries, modules |-> {}]
UnreadableDir == [kind |-> "dir", readable |-> FALSE, entries |-> <<>>, modules |-> {}]
BrokenLink == [kind |-> "broken", readable |-> FALSE, entries |-> <<>>, modules |-> {}]
File(modules) == [kind |-> "file", readable |-> FALSE, entries |-> <<>>, modules |-> modules]

Root == <<>>

\* a/1.js, a/2.js, b/1.js: any module in each
FsRoutes ==
    (Root :> Dir(<<DirA, DirB>>)) @@
    (<<DirA>> :> Dir(<<OneJs, TwoJs>>)) @@
    (<<DirB>> :> Dir(<<OneJs>>)) @@
    (<<DirA, OneJs>> :> File(AnyModule)) @@
    (<<DirA, TwoJs>> :> File(AnyModule)) @@
    (<<DirB, OneJs>> :> File(AnyModule))

\* a project with dependencies, a repository, build output and a secrets file
FsProject ==
    (Root :> Dir(<<NodeModules, Build, SecretsJs, Src, AppTs, DotGit, NotesMd>>)) @@
    (<<NodeModules>> :> Dir(<<MJs>>)) @@
    (<<NodeModules, MJs>> :> File({Cjs("cjsRouter", RouterA)})) @@
    (<<Build>> :> Dir(<<OJs>>)) @@
    (<<Build, OJs>> :> File({Cjs("cjsRouter", RouterA)})) @@
    (<<SecretsJs>> :> File({Cjs("cjsNumber", Num42)})) @@
    (<<Src>> :> Dir(<<RJs, Build, SecretsJs>>)) @@
    (<<Src, RJs>> :> File({Cjs("cjsContainer", ContainerABC), EsmNamed})) @@
    (<<Src, Build>> :> Dir(<<XTs>>)) @@
    (<<Src, Build, XTs>> :> File({CjsThrows})) @@
    (<<Src, SecretsJs>> :> File({Cjs("cjsNumber", Num42)})) @@
    (<<AppTs>> :> File({Cjs("cjsApp", AppLike), EsmDefault("esmApp", AppLike)})) @@
    (<<DotGit>> :> Dir(<<HJs>>)) @@
    (<<DotGit, HJs>> :> File({Cjs("cjsRouter", RouterA)})) @@
    (<<NotesMd>> :> File({}))

\* the root does not exist
FsMissingRoot == (<<DirA>> :> BrokenLink)

\* a nested directory that cannot be listed, between two router files
FsLocked ==
    (Root :> Dir(<<OneJs, Locked, TwoJs>>)) @@
    (<<OneJs>> :> File({Cjs("cjsRouter", RouterA), EsmDefault("esmRouter", RouterA)})) @@
    (<<Locked>> :> UnreadableDir) @@
    (<<TwoJs>> :> File({Cjs("cjsContainer", ContainerABC), EsmDefault("esmRouterB", RouterB)}))

\* an entry whose metadata query fails, between two router files
FsDangling ==
    (Root :> Dir(<<OneJs, Dangling, TwoJs>>)) @@
    (<<OneJs>> :> File({Cjs("cjsRouter", RouterA), EsmDefault("esmRouter", RouterA)})) @@
    (<<Dangling>> :> BrokenLink) @@
    (<<TwoJs>> :> File({Cjs("cjsContainer", ContainerABC), EsmDefault("esmRouterB", RouterB)}))

FileSystems == {FsRoutes, FsProject, FsMissingRoot, FsLocked, FsDangling}

\* fs.readdir(path) and fs.stat(path): whether they resolve
ReaddirOk(fs, path) == path \in DOMAIN fs /\ fs[path].kind = "dir" /\ fs[path].readable
StatOk(fs, path) == path \in DOMAIN fs /\ fs[path].kind # "broken"
IsDirectory(fs, path) == fs[path].kind = "dir"

PathJoin(directoryPath, file) == Append(directoryPath, file)

-----------------------------------------------------------------------------
(* The scanner *)

LogEntry(msg, subject, error) == [msg |-> msg, subject |-> subject, error |-> error]

ScanResult(error, fs, lg, vis) ==
    [error |-> error, files |-> fs, log |-> lg, visited |-> vis]

\* index.mjs wraps each entry of a directory in its own try/catch
PerEntryCatch(v) == v = "mjs"

IsExcludedFolder(excludeFolders, file) == ArrIncludes(excludeFolders, file)

\* a file kept although the caller excluded its name
IsExcludedFileNever(excludeFiles, file) == FALSE

IsExcludedFile(excludeFiles, file) == ArrIncludes(excludeFiles, file)

RECURSIVE getAllJsTsFiles(_, _, _, _, _)
RECURSIVE ScanEntries(_, _, _, _, _, _, _, _)

\* the body of the loop over a directory's entries
ScanEntry(v, fs, directoryPath, file, excludeFolders, excludeFiles) ==
    LET filePath == PathJoin(directoryPath, file)
    IN  IF ~StatOk(fs, filePath)
        THEN ScanResult(ErrorOf("stat", filePath), <<>>, <<>>, <<>>)
        ELSE IF IsDirectory(fs, filePath) /\ ~IsExcludedFolder(excludeFolders, file)
        THEN getAllJsTsFiles(v, fs, filePath, excludeFolders, excludeFiles)
        ELSE IF (EndsWith(file, ExtJs) \/ EndsWith(file, ExtTs))
                /\ ~IsExcludedFile(excludeFiles, file)
        THEN ScanResult(NoError, <<filePath>>, <<>>, <<>>)
        ELSE ScanResult(NoError, <<>>, <<>>, <<>>)

ScanEntries(v, fs, directoryPath, entries, i, excludeFolders, excludeFiles, acc) ==
    IF i > Len(entries) THEN acc
    ELSE
        LET r == ScanEntry(v, fs, directoryPath, entries[i], excludeFolders, excludeFiles)
            seen == ScanResult(NoError, acc.files, acc.log \o r.log, acc.visited \o r.visited)
        IN  IF r.error = NoError
            THEN ScanEntries(v, fs, directoryPath, entries, i + 1, excludeFolders,
                             excludeFiles, [seen EXCEPT !.files = @ \o r.files])
            ELSE IF PerEntryCatch(v)
            THEN ScanEntries(v, fs, directoryPath, entries, i + 1, excludeFolders,
                             excludeFiles,
                             [seen EXCEPT !.log = Append(@,
                                 LogEntry("Error processing file", entries[i], r.error))])
            ELSE [seen EXCEPT !.error = r.error]

getAllJsTsFiles(v, fs, directoryPath, excludeFolders, excludeFiles) ==
    LET start == ScanResult(NoError, <<>>, <<>>, <<directoryPath>>)
        r == IF ReaddirOk(fs, directoryPath)
             THEN ScanEntries(v, fs, directoryPath, fs[directoryPath].entries, 1,
                              excludeFolders, excludeFiles, start)
             ELSE [start EXCEPT !.error = ErrorOf("scandir", directoryPath)]
    IN  IF r.error = NoError THEN r
        ELSE [r EXCEPT !.files = <<>>,
                       !.log = Append(@, LogEntry("Error reading directory:",
                                                  directoryPath, r.error))]

-----------------------------------------------------------------------------
(* Classification: the app.use calls one loaded value leads to, in order *)

MountCall(value, where, key) == [value |-> value, where |-> where, key |-> key]

IsApplicationLike(value) ==
    value.type = "function" /\ "use" \in value.own /\ "handle" \in value.own

\* part_000, the loop over a container's keys
ContainerMembers(value) ==
    LET Qualifies(p) ==
            /\ p.val.type = "function"
            /\ "stack" \in p.val.own
            /\ isExpressRouter(p.val)
        ToCall(p) == MountCall(p.val, "member", p.key)
        kept == SelectSeq(value.props, Qualifies)
    IN  [i \in 1..Len(kept) |-> ToCall(kept[i])]

handleExpressRouter(value) ==
    LET haveAnyRoutes == isExpressRouter(value)
    IN  IF haveAnyRoutes /\ IsApplicationLike(value)
        THEN <<>>
        ELSE IF /\ haveAnyRoutes
                /\ Truthy(value)
                /\ value.type = "function"
                /\ "stack" \in value.own
        THEN <<MountCall(value, "direct", "")>>
        ELSE IF value.type = "object"
        THEN ContainerMembers(value)
        ELSE <<>>

\* index.js, second revision: each key's value or its default slot, then the
\* module itself
RECURSIVE KeyLoopJs2(_, _)
KeyLoopJs2(props, i) ==
    IF i > Len(props) THEN <<>>
    ELSE
        LET element == props[i].val
            here == IF isExpressRouter(element)
                    THEN <<MountCall(element, "member", props[i].key)>>
                    ELSE IF isExpressRouter(Get(element, "default"))
                    THEN <<MountCall(Get(element, "default"), "memberDefault", props[i].key)>>
                    ELSE <<>>
        IN  here \o KeyLoopJs2(props, i + 1)

MountPlan(v, value) ==
    CASE v = "cjs" ->
            IF Truthy(value) THEN handleExpressRouter(value) ELSE <<>>
      [] v = "mjs" ->
            LET defaultModule == Get(value, "default")
            IN  IF Truthy(value) /\ isExpressRouter(defaultModule)
                THEN <<MountCall(defaultModule, "default", "default")>>
                ELSE IF isExpressRouter(value)
                THEN <<MountCall(value, "direct", "")>>
                ELSE <<>>
      [] v = "js1" ->
            IF isExpressRouter(value)
            THEN <<MountCall(value, "direct", "")>>
            ELSE <<>>
      [] v = "js2" ->
            KeyLoopJs2(value.props, 1)
            \o (IF Truthy(value) /\ isExpressRouter(value)
                THEN <<MountCall(value, "direct", "")>>
                ELSE <<>>)

\* Where a throw of require/import goes: "skip" (caught, next file) or "abort"
\* (the first revision has no try around require).
AfterLoadThrow(v) == IF v = "js1" THEN "abort" ELSE "skip"

\* Whether the catch that receives a load failure writes to the error log.
LoadThrowLogged(v) == FALSE

\* a container whose loop stops at the first member that fails to mount
AfterMountThrowLeavingLoop(v, where) ==
    CASE v = "js1" -> "abort"
      [] v = "cjs" /\ where = "direct" -> "skipFile"
      [] OTHER -> "skipFile"

\* Where a throw of app.use goes: "continue" (its own try/catch, logged),
\* "skipFile" (the file's try/catch, silent) or "abort" (fuseRoutes' catch).
AfterMountThrow(v, where) ==
    CASE v = "js1" -> "abort"
      [] v = "cjs" /\ where = "direct" -> "skipFile"
      [] OTHER -> "continue"

\* the candidates walked from the last to the first
CandidateAtReversed(fileList, i) == fileList[Len(fileList) + 1 - i]

\* for (const file of files)
CandidateAt(fileList, i) == fileList[i]

HelpHandler == JsValue("/help", "function", {}, FALSE, <<>>)

\* the first revision has no helpRoute option
HelpAttached(v, help) == help /\ v # "js1"

-----------------------------------------------------------------------------
(* fuseRoutes *)

\* no second scan has been made
NoRescan == [error |-> NoError, files |-> <<>>]

ExcludeFilters ==
    {<<>>, Build \o <<Space>> \o SecretsJs, DirA, AJson \o <<Space>> \o DirB}

Init ==
    /\ variant \in Variants
    /\ fsys \in FileSystems
    /\ excludeFilter \in ExcludeFilters
    /\ helpRoute \in BOOLEAN
    /\ pc = "call"
    /\ exFiles = <<>>
    /\ allExcludedFolders = <<>>
    /\ files = <<>>
    /\ visited = <<>>
    /\ idx = 0
    /\ routerModule = Undefined
    /\ plan = <<>>
    /\ loads = <<>>
    /\ mounts = <<>>
    /\ appStack = <<>>
    /\ log = <<>>
    /\ thrown = NoError
    /\ mountFailures = 0
    /\ caller = "before"
    /\ lateMounts = 0
    /\ helpRequests = 0
    /\ helpResponse = <<>>
    /\ rescan = NoRescan

FuseLog(error) == LogEntry("Error fusing routes to application:", <<>>, error)

\* fuseRoutes is called: the exclusion lists are computed
Call ==
    /\ pc = "call"
    /\ LET f == filterFileAndFolder(excludeFilter)
       IN  /\ exFiles' = f.files
           /\ allExcludedFolders' = MergeExcludedFolders(f.folders)
    /\ pc' = "scan"
    /\ UNCHANGED <<variant, fsys, excludeFilter, helpRoute, files, visited, idx,
                   routerModule, plan, loads, mounts, appStack, log, thrown,
                   mountFailures>>
    /\ UNCHANGED hostVars

\* await getAllJsTsFiles(...): the list of candidates, or the error goes to
\* fuseRoutes' catch, which logs and rethrows (the promise rejects).  The
\* continuation of an await runs only after the caller's synchronous code.
Scan ==
    /\ pc = "scan"
    /\ caller # "before"
    /\ LET r == getAllJsTsFiles(variant, fsys, Root, allExcludedFolders, exFiles)
       IN  /\ visited' = r.visited
           /\ IF r.error = NoError
              THEN /\ files' = r.files
                   /\ idx' = 1
                   /\ log' = log \o r.log
                   /\ pc' = "loop"
                   /\ UNCHANGED thrown
              ELSE /\ log' = Append(log \o r.log, FuseLog(r.error))
                   /\ thrown' = r.error
                   /\ pc' = "thrown"
                   /\ UNCHANGED <<files, idx>>
    /\ UNCHANGED <<variant, fsys, excludeFilter, helpRoute, exFiles, allExcludedFolders,
                   routerModule, plan, loads, mounts, appStack, mountFailures>>
    /\ UNCHANGED hostVars

\* one iteration of the loop over the candidates, up to its first app.use
LoadCandidate ==
    /\ pc = "loop"
    /\ idx <= Len(files)
    /\ LET file == CandidateAt(files, idx)
       IN  \E m \in fsys[file].modules :
             LET outcome == Load(variant, file, m)
                 calls == MountPlan(variant, outcome.value)
             IN  /\ loads' = Append(loads, [file |-> file, strategy |-> Strategy(variant),
                                          outcome |-> outcome])
                 /\ routerModule' = outcome.value
                 /\ IF outcome.threw /\ AfterLoadThrow(variant) = "abort"
                    THEN /\ log' = Append(log, FuseLog(outcome.error))
                         /\ thrown' = outcome.error
                         /\ pc' = "thrown"
                         /\ UNCHANGED <<idx, plan>>
                    ELSE /\ log' = IF outcome.threw /\ LoadThrowLogged(variant)
                                   THEN Append(log, LogEntry("error", file, outcome.error))
                                   ELSE log
                         /\ plan' = calls
                         /\ pc' = IF calls = <<>> THEN "loop" ELSE "mount"
                         /\ idx' = IF calls = <<>> THEN idx + 1 ELSE idx
                         /\ UNCHANGED thrown
    /\ UNCHANGED <<variant, fsys, excludeFilter, helpRoute, exFiles, allExcludedFolders,
                   files, visited, mounts, appStack, mountFailures>>
    /\ UNCHANGED hostVars

MountRecord(file, call, threw) ==
    [file |-> file, value |-> call.value, where |-> call.where, key |-> call.key,
     threw |-> threw]

\* app.use(router) returns: the router is on the application's stack
MountOk ==
    /\ pc = "mount"
    /\ LET call == Head(plan)
       IN  /\ mounts' = Append(mounts, MountRecord(CandidateAt(files, idx), call, FALSE))
           /\ appStack' = Append(appStack, call.value.id)
    /\ plan' = Tail(plan)
    /\ pc' = IF Tail(plan) = <<>> THEN "loop" ELSE "mount"
    /\ idx' = IF Tail(plan) = <<>> THEN idx + 1 ELSE idx
    /\ UNCHANGED <<variant, fsys, excludeFilter, helpRoute, exFiles, allExcludedFolders,
                   files, visited, routerModule, loads, log, thrown, mountFailures>>
    /\ UNCHANGED hostVars

\* app.use(router) throws
MountThrows ==
    /\ pc = "mount"
    /\ mountFailures < MaxMountFailures
    /\ mountFailures' = mountFailures + 1
    /\ LET call == Head(plan)
           file == CandidateAt(files, idx)
           error == ErrorOf("mount", file)
           after == AfterMountThrow(variant, call.where)
           rest == IF after = "continue" THEN Tail(plan) ELSE <<>>
       IN  /\ mounts' = Append(mounts, MountRecord(file, call, TRUE))
           /\ plan' = rest
           /\ IF after = "abort"
              THEN /\ log' = Append(log, FuseLog(error))
                   /\ thrown' = error
                   /\ pc' = "thrown"
                   /\ UNCHANGED idx
              ELSE /\ log' = IF after = "continue"
                             THEN Append(log, LogEntry("error", file, error))
                             ELSE log
                   /\ pc' = IF rest = <<>> THEN "loop" ELSE "mount"
                   /\ idx' = IF rest = <<>> THEN idx + 1 ELSE idx
                   /\ UNCHANGED thrown
    /\ UNCHANGED <<variant, fsys, excludeFilter, helpRoute, exFiles, allExcludedFolders,
                   files, visited, routerModule, loads, appStack>>
    /\ UNCHANGED hostVars

\* after the loop, with helpRoute: app.use("/help", handler), then return
AttachHelp ==
    /\ pc = "loop"
    /\ idx > Len(files)
    /\ HelpAttached(variant, helpRoute)
    /\ mounts' = Append(mounts, [file |-> <<>>, value |-> HelpHandler, where |-> "help",
                                 key |-> "", threw |-> FALSE])
    /\ appStack' = Append(appStack, HelpHandler.id)
    /\ pc' = "returned"
    /\ UNCHANGED <<variant, fsys, excludeFilter, helpRoute, exFiles, allExcludedFolders,
                   files, visited, idx, routerModule, plan, loads, log, thrown,
                   mountFailures>>
    /\ UNCHANGED hostVars

\* after the loop, without helpRoute: return
Return ==
    /\ pc = "loop"
    /\ idx > Len(files)
    /\ ~HelpAttached(variant, helpRoute)
    /\ pc' = "returned"
    /\ UNCHANGED <<variant, fsys, excludeFilter, helpRoute, exFiles, allExcludedFolders,
                   files, visited, idx, routerModule, plan, loads, mounts, appStack, log,
                   thrown, mountFailures>>
    /\ UNCHANGED hostVars

\* a router the host mounts by hand
RouterLate == JsValue("routerLate", "function", {"stack"}, TRUE, <<>>)

\* the route table taken once, when the handler was attached
extractExpressRoutesAtAttach(stack) ==
    SubSeq(stack, 1, CHOOSE i \in 1..Len(stack) : stack[i] = HelpHandler.id)

\* extractExpressRoutes(app), called inside the handler: it reads the stack
\* the application has when the handler runs
extractExpressRoutes(stack) == stack

\* fuseRoutes({ app }) is an async function called without await: the call
\* returns a promise at the first await, no exception leaves it, and the
\* statement after the call (app.listen) runs next
CallerContinues ==
    /\ pc = "scan"
    /\ caller = "before"
    /\ caller' = "after"
    /\ UNCHANGED <<variant, fsys, excludeFilter, helpRoute, pc, exFiles,
                   allExcludedFolders, files, visited, idx, routerModule, plan, loads,
                   mounts, appStack, log, thrown, mountFailures, lateMounts,
                   helpRequests, helpResponse, rescan>>

\* the host mounts one more router after discovery has completed
LateMount ==
    /\ pc = "returned"
    /\ lateMounts < MaxLateMounts
    /\ lateMounts' = lateMounts + 1
    /\ appStack' = Append(appStack, RouterLate.id)
    /\ UNCHANGED <<variant, fsys, excludeFilter, helpRoute, pc, exFiles,
                   allExcludedFolders, files, visited, idx, routerModule, plan, loads,
                   mounts, log, thrown, mountFailures, caller, helpRequests,
                   helpResponse, rescan>>

\* a request reaches the handler mounted at "/help"
HelpRequest ==
    /\ ArrIncludes(appStack, HelpHandler.id)
    /\ helpRequests < MaxHelpRequests
    /\ helpRequests' = helpRequests + 1
    /\ helpResponse' = extractExpressRoutes(appStack)
    /\ UNCHANGED <<variant, fsys, excludeFilter, helpRoute, pc, exFiles,
                   allExcludedFolders, files, visited, idx, routerModule, plan, loads,
                   mounts, appStack, log, thrown, mountFailures, caller, lateMounts,
                   rescan>>

Next ==
    \/ Call \/ CallerContinues \/ Scan \/ LoadCandidate \/ MountOk \/ MountThrows
    \/ AttachHelp \/ Return \/ LateMount \/ HelpRequest

Spec == Init /\ [][Next]_vars

-----------------------------------------------------------------------------
(* Observations shared by the properties *)

Done == pc \in {"returned", "thrown"}

\* the scan returned a candidate list
ScanOk == pc \notin {"call", "scan"} /\ thrown.kind \notin {"scandir", "stat"}

PosIn(seq, x) == CHOOSE i \in 1..Len(seq) : seq[i] = x

RouterMounts == SelectSeq(mounts, LAMBDA r : r.where # "help")

\* the app.use calls made for one candidate, in the order they were made
CallsOf(file) ==
    LET ms == SelectSeq(mounts, LAMBDA r : r.where # "help" /\ r.file = file)
    IN  [i \in 1..Len(ms) |-> MountCall(ms[i].value, ms[i].where, ms[i].key)]

ValuesOf(calls) == [i \in 1..Len(calls) |-> calls[i].value]

\* candidate i has been loaded and the loop has moved past it
Processed(i) == i <= Len(loads) /\ (i < idx \/ Done)

KeyPos(value, key) == CHOOSE i \in 1..Len(value.props) : value.props[i].key = key

LoadedValueOf(file) == loads[CHOOSE i \in 1..Len(loads) : loads[i].file = file].outcome.value

NoMountThrew == \A i \in 1..Len(mounts) : ~mounts[i].threw

\* every candidate was loaded, and every app.use its value calls for was made
AllCandidatesHandled ==
    /\ Len(loads) = Len(files)
    /\ \A i \in 1..Len(files) :
          /\ loads[i].file = files[i]
          /\ CallsOf(files[i]) = MountPlan(variant, loads[i].outcome.value)

-----------------------------------------------------------------------------
(* C1: the routers are mounted in the scanner's candidate order: a mount   *)
(* from an earlier candidate of the list precedes every mount from a later *)
(* one, and the members of one container are mounted in the container's    *)
(* key order.                                                              *)
C1_MountOrder ==
    LET ms == RouterMounts
    IN  \A j \in 1..Len(ms) : \A k \in 1..Len(ms) :
          j < k =>
            /\ ArrIncludes(files, ms[j].file) /\ ArrIncludes(files, ms[k].file)
            /\ PosIn(files, ms[j].file) <= PosIn(files, ms[k].file)
            /\ (ms[j].file = ms[k].file /\ ms[j].where = "member" /\ ms[k].where = "member")
                  => KeyPos(LoadedValueOf(ms[j].file), ms[j].key)
                       < KeyPos(LoadedValueOf(ms[k].file), ms[k].key)

\* two members of a container in an earlier file, then a router of a later file
C1_Witness ==
    /\ pc = "returned"
    /\ \E j \in 1..Len(mounts) : \E k \in 1..Len(mounts) : \E l \in 1..Len(mounts) :
          /\ j < k /\ k < l
          /\ mounts[j].file = mounts[k].file
          /\ mounts[j].where = "member" /\ mounts[k].where = "member"
          /\ mounts[l].file # mounts[k].file /\ mounts[l].where # "help"

(* C2: when loading one candidate throws, every candidate is still loaded, *)
(* every router found is still mounted, and fuseRoutes returns normally    *)
(* (part_000, index.mjs, index.js first revision).                         *)
C2_LoadIsolation ==
    ( /\ variant \in {"cjs", "mjs", "js1"}
      /\ Done /\ ScanOk /\ NoMountThrew
      /\ \E i \in 1..Len(loads) : loads[i].outcome.threw )
    => (pc = "returned" /\ thrown = NoError /\ AllCandidatesHandled)

(* C3: when the listing of a visited directory fails, fuseRoutes throws    *)
(* that error and no app.use call has been made (part_000, index.mjs).     *)
ListingFailed == \E i \in 1..Len(log) : log[i].error.kind = "scandir"

C3_FatalPath ==
    (variant \in {"cjs", "mjs"} /\ ListingFailed)
    => /\ mounts = <<>>
       /\ Done => (pc = "thrown" /\ thrown.kind = "scandir")

(* C4: an application-like value (a function with its own 'use' and        *)
(* 'handle') is never passed to app.use (part_000, index.mjs).             *)
C4_ApplicationNeverMounted ==
    variant \in {"cjs", "mjs"}
    => \A i \in 1..Len(mounts) : ~IsApplicationLike(mounts[i].value)

(* C5: for a candidate that loads to a non-callable keyed object, the      *)
(* app.use calls are exactly its router-shaped property values, each once, *)
(* in key order, and nothing is logged for it unless a mount throws        *)
(* (part_000, index.js second revision, index.mjs).                        *)
RouterShaped(value) ==
    value.type = "function" /\ "stack" \in value.own /\ isExpressRouter(value)

RouterShapedProps(value) ==
    LET kept == SelectSeq(value.props, LAMBDA p : RouterShaped(p.val))
    IN  [i \in 1..Len(kept) |-> kept[i].val]

C5_ContainerExpansion ==
    variant \in {"cjs", "js2", "mjs"}
    => \A i \in 1..Len(loads) :
          (Processed(i) /\ ~loads[i].outcome.threw /\ loads[i].outcome.value.type = "object")
          => /\ ValuesOf(CallsOf(loads[i].file)) = RouterShapedProps(loads[i].outcome.value)
             /\ NoMountThrew
                  => \A e \in 1..Len(log) : log[e].error.path # loads[i].file

(* C6: whatever excludeFilter is, the excluded folders hold node_modules   *)
(* and .git and every folder token of the caller; the scanner lists no     *)
(* directory of either name and no candidate lies beneath one.             *)
C6_DefaultExclusion ==
    pc # "call" =>
      /\ ArrIncludes(allExcludedFolders, NodeModules)
      /\ ArrIncludes(allExcludedFolders, DotGit)
      /\ \A i \in 1..Len(Split(excludeFilter)) :
            LET token == Split(excludeFilter)[i]
            IN  ArrIncludes(allExcludedFolders, token) \/ ArrIncludes(exFiles, token)
      /\ \A i \in 1..Len(visited) : \A j \in 1..Len(visited[i]) :
            visited[i][j] \notin {NodeModules, DotGit}
      /\ \A i \in 1..Len(files) : \A j \in 1..Len(files[i]) :
            files[i][j] \notin {NodeModules, DotGit}

\* a tree holding both folders with files beneath, scanned with an empty filter
C6_Witness ==
    /\ pc = "loop"
    /\ excludeFilter = <<>>
    /\ <<NodeModules, MJs>> \in DOMAIN fsys /\ <<DotGit, HJs>> \in DOMAIN fsys
    /\ Len(files) > 0

(* C7: with excludeFilter "build secrets.js" the candidate list holds no   *)
(* file beneath a folder named build and no file named secrets.js, and it  *)
(* holds every other .js/.ts file of the tree outside the excluded folders.*)
BuildSecrets == Build \o <<Space>> \o SecretsJs

\* a .js/.ts file that is not secrets.js, every folder above it listable and
\* none of them named build, node_modules or .git
ExpectedCandidate(p) ==
    /\ Len(p) > 0
    /\ fsys[p].kind = "file"
    /\ (EndsWith(p[Len(p)], ExtJs) \/ EndsWith(p[Len(p)], ExtTs))
    /\ p[Len(p)] # SecretsJs
    /\ \A n \in 0..(Len(p) - 1) :
          /\ ReaddirOk(fsys, SubSeq(p, 1, n))
          /\ n > 0 => p[n] \notin {Build, NodeModules, DotGit}

C7_AdditiveExclusion ==
    (excludeFilter = BuildSecrets /\ ScanOk) =>
      /\ \A i \in 1..Len(files) :
            /\ files[i][Len(files[i])] # SecretsJs
            /\ \A j \in 1..(Len(files[i]) - 1) : files[i][j] # Build
      /\ \A p \in DOMAIN fsys : ExpectedCandidate(p) => ArrIncludes(files, p)

\* the project tree: build/ and secrets.js are present, src/r.js and app.ts stay
C7_Witness ==
    /\ excludeFilter = BuildSecrets /\ ScanOk
    /\ <<Build, OJs>> \in DOMAIN fsys /\ <<SecretsJs>> \in DOMAIN fsys
    /\ ArrIncludes(files, <<Src, RJs>>) /\ ArrIncludes(files, <<AppTs>>)

(* C8: fuseRoutes throws only when listing a directory failed (part_000,   *)
(* index.js first revision).                                               *)
C8_OnlyListingIsFatal ==
    (variant \in {"cjs", "js1"} /\ pc = "thrown") => thrown.kind = "scandir"

C10_ErrorLogging ==
    variant = "cjs" =>
      /\ \A i \in 1..Len(loads) :
            LET o == loads[i].outcome
            IN  /\ (o.threw /\ o.error.kind = "LoadError")
                     => \E e \in 1..Len(log) : log[e].error = o.error
                /\ (o.threw /\ o.error.kind = "NotThisConvention")
                     => \A e \in 1..Len(log) : log[e].error # o.error
      /\ Len(SelectSeq(log, LAMBDA e : e.error.kind = "mount"))
            = Len(SelectSeq(mounts, LAMBDA r : r.threw))
      /\ thrown.kind \notin {"LoadError", "NotThisConvention", "mount"}

-----------------------------------------------------------------------------
(* Two scans of one tree.  fs.readdir promises no order, so the second     *)
(* scan may be handed the entries of any directory in another order; the   *)
(* tree itself (which entries each directory holds) is the same.           *)

Reverse(seq) == [i \in 1..Len(seq) |-> seq[Len(seq) + 1 - i]]

\* the directories whose listing has an order to speak of
ListedDirs(fs) == {p \in DOMAIN fs : fs[p].kind = "dir" /\ Len(fs[p].entries) > 1}

\* the same tree with the listings of some directories returned backwards
Reorderings(fs) ==
    { [p \in DOMAIN fs |->
          IF p \in D THEN [fs[p] EXCEPT !.entries = Reverse(@)] ELSE fs[p]] :
      D \in SUBSET ListedDirs(fs) }

InitScan ==
    /\ variant \in Variants
    /\ fsys \in FileSystems
    /\ excludeFilter \in ExcludeFilters
    /\ helpRoute = FALSE
    /\ pc = "scan1"
    /\ exFiles = <<>>
    /\ allExcludedFolders = <<>>
    /\ files = <<>>
    /\ visited = <<>>
    /\ idx = 0
    /\ routerModule = Undefined
    /\ plan = <<>>
    /\ loads = <<>>
    /\ mounts = <<>>
    /\ appStack = <<>>
    /\ log = <<>>
    /\ thrown = NoError
    /\ mountFailures = 0
    /\ caller = "before"
    /\ lateMounts = 0
    /\ helpRequests = 0
    /\ helpResponse = <<>>
    /\ rescan = NoRescan

\* getAllJsTsFiles(root, allExcludedFolders, exFiles), as fuseRoutes calls it
FirstScan ==
    /\ pc = "scan1"
    /\ LET f == filterFileAndFolder(excludeFilter)
           r == getAllJsTsFiles(variant, fsys, Root, MergeExcludedFolders(f.folders), f.files)
       IN  /\ exFiles' = f.files
           /\ allExcludedFolders' = MergeExcludedFolders(f.folders)
           /\ files' = r.files
           /\ visited' = r.visited
           /\ thrown' = r.error
    /\ pc' = "scan2"
    /\ UNCHANGED <<variant, fsys, excludeFilter, helpRoute, idx, routerModule, plan, loads,
                   mounts, appStack, log, mountFailures, hostVars>>

\* the same call again, on the unmodified tree
SecondScan ==
    /\ pc = "scan2"
    /\ \E fs2 \in Reorderings(fsys) :
          LET r == getAllJsTsFiles(variant, fs2, Root, allExcludedFolders, exFiles)
          IN  rescan' = [error |-> r.error, files |-> r.files]
    /\ pc' = "scanned"
    /\ UNCHANGED <<variant, fsys, excludeFilter, helpRoute, exFiles, allExcludedFolders,
                   files, visited, idx, routerModule, plan, loads, mounts, appStack, log,
                   thrown, mountFailures, caller, lateMounts, helpRequests, helpResponse>>

NextScan == FirstScan \/ SecondScan

SpecScan == InitScan /\ [][NextScan]_vars

-----------------------------------------------------------------------------
(* C11: each time the "/help" handler runs, its response is computed from  *)
(* what is mounted on the application at that moment, so a router the host *)
(* mounted after fuseRoutes returned is in it; and with helpRoute off no   *)
(* handler is attached at "/help".                                         *)
C11_IntrospectionLive ==
    /\ [](~helpRoute => ~ArrIncludes(appStack, HelpHandler.id))
    /\ [][helpRequests' # helpRequests =>
            /\ \A i \in 1..Len(appStack) : ArrIncludes(helpResponse', appStack[i])
            /\ \A i \in 1..Len(helpResponse') : ArrIncludes(appStack, helpResponse'[i])]_vars

\* the handler ran after the host mounted a router, and reported it
C11_Witness ==
    /\ helpRoute /\ pc = "returned"
    /\ helpRequests > 0 /\ lateMounts > 0
    /\ ArrIncludes(helpResponse, RouterLate.id)

(* C12: fuseRoutes({ app }) called without await throws a directory-read   *)
(* failure out of the call, into the catch block around it, and the        *)
(* statement after the call runs only once the routers are mounted.        *)
C12_SynchronousAbort ==
    /\ (pc = "thrown" /\ thrown.kind = "scandir") => caller = "caught"
    /\ caller = "after" => pc = "returned"

(* C13: two scans of an unmodified tree return the same candidates in the  *)
(* same order, in whatever order the file system lists a directory.        *)
C13_Determinism ==
    pc = "scanned" => (rescan.files = files /\ rescan.error = thrown)

(* C14: filterFileAndFolder puts a token of excludeFilter in the excluded   *)
(* files exactly when it ends with .js or .ts, every other token in the    *)
(* excluded folders, and each token in exactly one of the two lists.       *)
CallerFolders == SubSeq(allExcludedFolders, Len(DEFAULT_EXCLUDE_FOLDERS) + 1,
                        Len(allExcludedFolders))

C14_TokenPartition ==
    pc \notin {"call", "scan1"} =>
      \A i \in 1..Len(Split(excludeFilter)) :
          LET token == Split(excludeFilter)[i]
              isFileName == EndsWith(token, ExtJs) \/ EndsWith(token, ExtTs)
          IN  /\ ArrIncludes(exFiles, token) <=> isFileName
              /\ ArrIncludes(CallerFolders, token) <=> ~isFileName
              /\ ArrIncludes(exFiles, token) # ArrIncludes(CallerFolders, token)

(* C15: a candidate whose first loading strategy fails because the file    *)
(* does not follow that convention is then tried with the other strategy,  *)
(* and counts as not loadable only after the last one failed.              *)
C15_FallsBack ==
    \A i \in 1..Len(loads) :
        ( /\ Processed(i)
          /\ loads[i].outcome.threw
          /\ loads[i].outcome.error.kind = "NotThisConvention" )
        => \E j \in 1..Len(loads) :
              /\ loads[j].file = loads[i].file
              /\ loads[j].strategy # loads[i].strategy

(* C15, amended: each candidate is loaded at most once, with the single    *)
(* strategy of the revision that runs (import() in index.mjs, require in   *)
(* the others); when that attempt throws, no other strategy is tried and   *)
(* nothing is mounted for the candidate.                                   *)
C15_SingleStrategy ==
    /\ Len(loads) <= Len(files)
    /\ \A i \in 1..Len(loads) :
          /\ loads[i].file = files[i]
          /\ loads[i].strategy = (IF variant = "mjs" THEN "import" ELSE "require")
          /\ loads[i].outcome.threw => CallsOf(loads[i].file) = <<>>

\* an ES module met by require: skipped after the one attempt, and the next
\* candidate loaded
C15_Witness ==
    /\ variant = "cjs" /\ Len(loads) >= 2
    /\ loads[1].strategy = "require"
    /\ loads[1].outcome.threw
    /\ loads[1].outcome.error.kind = "NotThisConvention"
    /\ ~loads[2].outcome.threw
    /\ loads[2].file # loads[1].file

====
